---- MODULE Spec2Model ----
(***************************************************************************)
(* Multi-provider storage routing layer: StorageManager composing the      *)
(* BackblazeService (archival), CloudinaryService (CDN-media) and          *)
(* FirebaseService (general-bucket) adapters.                              *)
(*                                                                         *)
(* Strings that the code searches or splits (URLs, object keys, file      *)
(* names) are sequences of tokens; the tokenisation cuts a string at every *)
(* place where one of the code's literals ('/', '.', '?', 'upload',        *)
(* 'cloudinary.com', ...) can begin or end, so that Python's `in`, split   *)
(* and rsplit become operations on token sequences.                        *)
(***************************************************************************)
EXTENDS Integers, Sequences, FiniteSets, TLC

VARIABLES
    env,         \* process configuration read by _initialize_services
    backblaze,   \* StorageManager.backblaze is not None
    cloudinary,  \* StorageManager.cloudinary is not None
    firebase,    \* StorageManager.firebase is not None
    store,       \* objects held by each backend
    nextUuid,    \* number of uuid4() values drawn so far
    issued,      \* what every result dict returned so far says of its object, in order
    last,        \* the call that has just ended, until its caller takes the outcome
    threads      \* per request thread: its call in flight, position and locals

vars == <<env, backblaze, cloudinary, firebase, store, nextUuid, issued, last, threads>>

(***************************************************************************)
(* Bounds                                                                  *)
(***************************************************************************)
MaxUploads == 1

MaxStored == 2

(***************************************************************************)
(* Values                                                                  *)
(***************************************************************************)
None == "None"

Adapters == {"backblaze", "cloudinary", "firebase"}

RemixTypes == {"remix_video", "remix_audio", "remix_thumbnail"}

EditorTypes == {"editor_video", "editor_audio", "editor_image", "project_export"}

SharedTypes == {"user_avatar", "template_thumbnail", "effect_preview"}

UnknownTypes == {"document"}

FileTypes == RemixTypes \cup EditorTypes \cup SharedTypes \cup UnknownTypes

LargeThreshold == 100 * 1024 * 1024

SmallThreshold == 10 * 1024 * 1024

\* byte lengths around the two thresholds of _auto_select_storage
FileSizes ==
    {SmallThreshold - 1, SmallThreshold, LargeThreshold - 1,
     LargeThreshold, LargeThreshold + 1, 150 * 1024 * 1024}

\* upload_file reads the size of the stream only for an unrecognised file_type
\* (line 119): recognised types are exercised with one small and one large size
SizesFor(file_type) ==
    IF file_type \in UnknownTypes THEN FileSizes
    ELSE {SmallThreshold - 1, 150 * 1024 * 1024}

Users == {"u1", "u2"}

\* A werkzeug FileStorage as the adapters read it: filename and content_type are
\* token sequences, <<>> standing for the falsy values None and '' (every use in the
\* code is `if not x` or `x or default`); size is the byte length of the stream.
NoName == <<>>

FileShapes ==
    { [filename |-> NoName, content_type |-> <<>>],
      [filename |-> <<"clip", ".", "MP4">>, content_type |-> <<"video/", "mp4">>] }

File(shape, size) ==
    [filename |-> shape.filename, content_type |-> shape.content_type, size |-> size]

\* What the backend does with one upload call: the local read of the stream fails,
\* the backend rejects the write, a call after the write fails, or all succeed.
BackendOutcomes == {"ok", "read_fail", "write_fail", "post_fail"}

(***************************************************************************)
(* Token-sequence string helpers                                           *)
(***************************************************************************)
\* Python `pat in s`
Contains(s, pat) ==
    \E i \in 1..(Len(s) - Len(pat) + 1) : SubSeq(s, i, i + Len(pat) - 1) = pat

\* index of the first occurrence of pat in s at or after position from, 0 if none
RECURSIVE FindFrom(_, _, _)
FindFrom(s, pat, from) ==
    IF from + Len(pat) - 1 > Len(s) THEN 0
    ELSE IF SubSeq(s, from, from + Len(pat) - 1) = pat THEN from
    ELSE FindFrom(s, pat, from + 1)

\* Python s.split(sep): the sequence of pieces between occurrences of sep
RECURSIVE Split(_, _)
Split(s, sep) ==
    LET i == FindFrom(s, sep, 1)
    IN  IF i = 0 THEN <<s>>
        ELSE <<SubSeq(s, 1, i - 1)>> \o Split(SubSeq(s, i + Len(sep), Len(s)), sep)

\* index of the last occurrence of token t in s, 0 if none
RECURSIVE LastIndex(_, _, _)
LastIndex(s, t, i) ==
    IF i = 0 THEN 0 ELSE IF s[i] = t THEN i ELSE LastIndex(s, t, i - 1)

\* Python s.rsplit('.', 1)[0]
RSplitDotHead(s) ==
    LET i == LastIndex(s, ".", Len(s))
    IN  IF i = 0 THEN s ELSE SubSeq(s, 1, i - 1)

\* Python s.rsplit('.', 1)[1] for a string that contains '.'
RSplitDotTail(s) ==
    LET i == LastIndex(s, ".", Len(s))
    IN  SubSeq(s, i + 1, Len(s))

\* str.lower() on the file-name tokens in use
Lower(t) ==
    CASE t = "MP4" -> "mp4"
      [] t = "PNG" -> "png"
      [] OTHER -> t

LowerSeq(s) == [i \in 1..Len(s) |-> Lower(s[i])]

\* urllib.parse.unquote on the escapes in use
Unquote(s) == [i \in 1..Len(s) |-> IF s[i] = "%2F" THEN "/" ELSE s[i]]

\* _get_file_extension, identical in the three adapters
_get_file_extension(filename) ==
    IF filename = <<>> THEN <<>>
    ELSE IF Contains(filename, <<".">>)
         THEN <<".">> \o LowerSeq(RSplitDotTail(filename))
         ELSE <<>>

(***************************************************************************)
(* Construction: StorageManager.__init__ / _initialize_services            *)
(***************************************************************************)
\* Per adapter: "absent" (the credentials tested by _initialize_services are not
\* all set), "ctor_raises" (they are set and the adapter's constructor raises:
\* B2 authentication fails, FIREBASE_PROJECT_ID is missing or the SDK
\* initialisation fails), "ok". CloudinaryService.__init__ tests the same three
\* variables as the manager and makes no backend call.
Envs ==
    [ b2 : {"absent", "ctor_raises", "ok"},
      cld : {"absent", "ok"},
      fb : {"absent", "ctor_raises", "ok"} ]

\* mutant: one try block around the three constructions, so that a constructor
\* that raises leaves the adapters after it uninitialised
_initialize_services_OneTryBlock(e) ==
    [ backblaze |-> (e.b2 = "ok"),
      cloudinary |-> (e.b2 # "ctor_raises" /\ e.cld = "ok"),
      firebase |-> (e.b2 # "ctor_raises" /\ e.fb = "ok") ]

\* each try block sets its attribute only when the constructor returned
_initialize_services(e) ==
    [ backblaze |-> (e.b2 = "ok"),
      cloudinary |-> (e.cld = "ok"),
      firebase |-> (e.fb = "ok") ]

(***************************************************************************)
(* Routing: StorageManager.upload_file / _auto_select_storage              *)
(***************************************************************************)
\* a recognised branch ends without a return statement
Fallthrough == "fallthrough"

\* _auto_select_storage reaches `raise Exception("No storage service available")`
NoStorage == "no_storage"

\* a size rule of _auto_select_storage selected nothing; the default order follows
NextRule == "next_rule"

\* mutant: the remix branch falls back to the general bucket
RemixRoute_FirebaseFallback ==
    IF backblaze THEN "backblaze"
    ELSE IF cloudinary THEN "cloudinary"
    ELSE IF firebase THEN "firebase"
    ELSE Fallthrough

RemixRoute ==
    IF backblaze THEN "backblaze"
    ELSE IF cloudinary THEN "cloudinary"
    ELSE Fallthrough

\* mutant: the editor branch has no fallback
EditorRoute_NoFallback ==
    IF cloudinary THEN "cloudinary" ELSE Fallthrough

EditorRoute ==
    IF cloudinary THEN "cloudinary"
    ELSE IF backblaze THEN "backblaze"
    ELSE Fallthrough

\* mutant: the shared branch falls back to archival before CDN-media
SharedRoute_ArchivalBeforeCdn ==
    IF firebase THEN "firebase"
    ELSE IF backblaze THEN "backblaze"
    ELSE IF cloudinary THEN "cloudinary"
    ELSE Fallthrough

SharedRoute ==
    IF firebase THEN "firebase"
    ELSE IF cloudinary THEN "cloudinary"
    ELSE IF backblaze THEN "backblaze"
    ELSE Fallthrough

\* mutant: the large-file rule prefers archival
LargeFileRoute_ArchivalFirst ==
    IF backblaze THEN "backblaze"
    ELSE IF cloudinary THEN "cloudinary"
    ELSE NextRule

LargeFileRoute ==
    IF cloudinary THEN "cloudinary"
    ELSE IF backblaze THEN "backblaze"
    ELSE NextRule

\* mutant: the small-file rule is missing
SmallFileRoute_Missing == NextRule

SmallFileRoute ==
    IF firebase THEN "firebase" ELSE NextRule

\* mutant: the default order starts with the general bucket
DefaultOrderRoute_GeneralFirst ==
    IF firebase THEN "firebase"
    ELSE IF cloudinary THEN "cloudinary"
    ELSE IF backblaze THEN "backblaze"
    ELSE NoStorage

DefaultOrderRoute ==
    IF cloudinary THEN "cloudinary"
    ELSE IF backblaze THEN "backblaze"
    ELSE IF firebase THEN "firebase"
    ELSE NoStorage

SizeRule(file_size) ==
    IF file_size > LargeThreshold THEN LargeFileRoute
    ELSE IF file_size < SmallThreshold THEN SmallFileRoute
    ELSE NextRule

_auto_select_storage(file_size) ==
    IF SizeRule(file_size) # NextRule THEN SizeRule(file_size) ELSE DefaultOrderRoute

\* the adapter upload_file delegates to, or Fallthrough, or NoStorage
SelectAdapter(file_type, file_size) ==
    IF file_type \in RemixTypes THEN RemixRoute
    ELSE IF file_type \in EditorTypes THEN EditorRoute
    ELSE IF file_type \in SharedTypes THEN SharedRoute
    ELSE _auto_select_storage(file_size)

(***************************************************************************)
(* Records exchanged with the caller and held by the backends              *)
(***************************************************************************)
\* the i-th value returned by uuid.uuid4()
\* mutant: uuid4() returns the same value on every call
Uuid_Repeats(n) == "uuid-0"

Uuid(n) == "uuid-" \o ToString(n)

\* the opaque file id the B2 backend assigns to the i-th stored file
B2FileId(n) == "4_z27c_f" \o ToString(n)

\* the result dict the adapters build (the keys the three of them share, with the
\* provider's native identifier: file_id, public_id, blob_name)
Result(service, native_id, file_name, download_url, file, user_id, file_type) ==
    [ success |-> TRUE,
      service |-> service,
      native_id |-> native_id,
      file_name |-> file_name,
      download_url |-> download_url,
      file_size |-> file.size,
      content_type |-> file.content_type,
      user_id |-> user_id,
      file_type |-> file_type,
      original_filename |-> file.filename ]

\* placeholder where a call produced no result dict
NoResult ==
    [ success |-> FALSE,
      service |-> None,
      native_id |-> <<>>,
      file_name |-> <<>>,
      download_url |-> <<>>,
      file_size |-> 0,
      content_type |-> <<>>,
      user_id |-> None,
      file_type |-> None,
      original_filename |-> <<>> ]

\* an object held by a backend: the name the adapter gave it, the identifier the
\* backend addresses it by, and the URL the backend serves it at
Object(name, id, url) == [name |-> name, id |-> id, url |-> url]

\* what an adapter's delete_file did: the boolean it returned, the backend calls it
\* issued, and the identifiers of the objects the backend removed
Deleted(value, backend_ops, removed) ==
    [value |-> value, backend_ops |-> backend_ops, removed |-> removed]

\* what an adapter's upload_file did: whether it raised, the backend calls it
\* issued, the objects the backend stored, and the result dict it returned
Raised(backend_ops, written) ==
    [raised |-> TRUE, backend_ops |-> backend_ops, written |-> written,
     result |-> NoResult]

Returned(backend_ops, written, result) ==
    [raised |-> FALSE, backend_ops |-> backend_ops, written |-> written,
     result |-> result]

(***************************************************************************)
(* BackblazeService                                                        *)
(***************************************************************************)
\* B2Api.get_download_url_for_fileid: a string built from the account's download
\* host, no backend call
B2DownloadUrl(file_id) ==
    <<"https:", "/", "/", "f002.", "backblazeb2.com", "/", "b2api", "/", "v2", "/",
      "b2_download_file_by_id", "?", "fileId=", file_id>>

\* mutant: the key starts with the file type instead of the user id
BackblazeUpload_TypeFirstKey(file, user_id, file_type, backend) ==
    LET file_extension == _get_file_extension(file.filename)
        unique_filename ==
            <<file_type, "/", user_id, "/", Uuid(nextUuid)>> \o file_extension
        file_id == B2FileId(nextUuid)
        download_url == B2DownloadUrl(file_id)
    IN  IF backend = "read_fail" THEN Raised(<<>>, {})
        ELSE IF backend = "write_fail" THEN Raised(<<"b2.upload_bytes">>, {})
        ELSE Returned(<<"b2.upload_bytes">>,
                      {Object(unique_filename, <<file_id>>, download_url)},
                      Result("backblaze", <<file_id>>, unique_filename, download_url,
                             file, user_id, file_type))

BackblazeUpload(file, user_id, file_type, backend) ==
    LET file_extension == _get_file_extension(file.filename)
        unique_filename ==
            <<user_id, "/", file_type, "/", Uuid(nextUuid)>> \o file_extension
        file_id == B2FileId(nextUuid)
        download_url == B2DownloadUrl(file_id)
    IN  IF backend = "read_fail" THEN Raised(<<>>, {})
        ELSE IF backend = "write_fail" THEN Raised(<<"b2.upload_bytes">>, {})
        ELSE Returned(<<"b2.upload_bytes">>,
                      {Object(unique_filename, <<file_id>>, download_url)},
                      Result("backblaze", <<file_id>>, unique_filename, download_url,
                             file, user_id, file_type))

(***************************************************************************)
(* CloudinaryService                                                       *)
(***************************************************************************)
VideoExtensions == {"mp4", "avi", "mov", "wmv", "flv", "webm", "mkv"}

AudioExtensions == {"mp3", "wav", "aac", "ogg", "m4a", "flac"}

ImageExtensions == {"jpg", "jpeg", "png", "gif", "bmp", "webp", "svg"}

\* file_extension is <<>> or <<".", ext>>
ExtensionClass(file_extension) ==
    IF Len(file_extension) # 2 THEN "raw"
    ELSE IF Lower(file_extension[2]) \in VideoExtensions \cup AudioExtensions THEN "video"
    ELSE IF Lower(file_extension[2]) \in ImageExtensions THEN "image"
    ELSE "raw"

\* mutant: a known extension decides before the content type is looked at
_get_resource_type_ExtensionFirst(content_type, file_extension) ==
    IF ExtensionClass(file_extension) # "raw" THEN ExtensionClass(file_extension)
    ELSE IF content_type # <<>> /\ content_type[1] \in {"video/", "audio/"}
    THEN "video"
    ELSE IF content_type # <<>> /\ content_type[1] = "image/" THEN "image"
    ELSE "raw"

_get_resource_type(content_type, file_extension) ==
    IF content_type # <<>> /\ content_type[1] = "video/" THEN "video"
    ELSE IF content_type # <<>> /\ content_type[1] = "audio/" THEN "video"
    ELSE IF content_type # <<>> /\ content_type[1] = "image/" THEN "image"
    ELSE ExtensionClass(file_extension)

\* The backend's answer to cloudinary.uploader.upload with options public_id and
\* folder: the stored public id is folder + '/' + public_id, and secure_url is
\* https://res.cloudinary.com/<cloud>/<resource_type>/upload/v<version>/<public id>
\* followed by '.' + format for image and video resources.
CloudinaryStoredId(user_id, public_id) ==
    <<"video-editor", "/", user_id, "/">> \o public_id

CloudinarySecureUrl(resource_type, stored_id, file_extension) ==
    <<"https:", "/", "/", "res.", "cloudinary.com", "/", "demo", "/",
      resource_type, "/", "upload", "/", "v1", "/">>
    \o stored_id
    \o (IF resource_type = "raw" THEN <<>> ELSE file_extension)

\* an object held by Cloudinary: an Object with the 'folder' and 'tags' upload
\* options it was stored with
Asset(name, id, url, folder, tags) ==
    [name |-> name, id |-> id, url |-> url, folder |-> folder, tags |-> tags]

\* f"video-editor/{user_id}"
CloudinaryFolder(user_id) == <<"video-editor", "/", user_id>>

CloudinaryUpload(file, user_id, file_type, backend) ==
    LET file_extension == _get_file_extension(file.filename)
        public_id == <<user_id, "/", file_type, "/", Uuid(nextUuid)>>
        resource_type == _get_resource_type(file.content_type, file_extension)
        stored_id == CloudinaryStoredId(user_id, public_id)
        secure_url == CloudinarySecureUrl(resource_type, stored_id, file_extension)
    IN  IF backend \in {"read_fail", "write_fail"}
        THEN Raised(<<"cloudinary.upload">>, {})
        ELSE Returned(<<"cloudinary.upload">>,
                      {Asset(public_id, stored_id, secure_url,
                             CloudinaryFolder(user_id), {file_type, user_id})},
                      Result("cloudinary", stored_id, public_id, secure_url,
                             file, user_id, file_type))

(***************************************************************************)
(* FirebaseService                                                         *)
(***************************************************************************)
FirebaseBucket == "demo.appspot.com"

\* google.cloud.storage Blob.public_url: the object name is quoted with '/' kept
FirebasePublicUrl(blob_name) ==
    <<"https:", "/", "/", "storage.", "googleapis.com", "/", FirebaseBucket, "/">>
    \o blob_name

\* mutant: a rejected write is logged and the result dict is returned all the same
FirebaseUpload_SwallowsWriteError(file, user_id, file_type, backend) ==
    LET file_extension == _get_file_extension(file.filename)
        unique_filename ==
            <<file_type, "/", user_id, "/", Uuid(nextUuid)>> \o file_extension
        download_url == FirebasePublicUrl(unique_filename)
        blob == Object(unique_filename, unique_filename, download_url)
    IN  IF backend = "read_fail" THEN Raised(<<>>, {})
        ELSE Returned(<<"firebase.upload_from_string", "firebase.make_public">>,
                      IF backend = "write_fail" THEN {} ELSE {blob},
                      Result("firebase", unique_filename, unique_filename, download_url,
                             file, user_id, file_type))

FirebaseUpload(file, user_id, file_type, backend) ==
    LET file_extension == _get_file_extension(file.filename)
        unique_filename ==
            <<file_type, "/", user_id, "/", Uuid(nextUuid)>> \o file_extension
        download_url == FirebasePublicUrl(unique_filename)
        blob == Object(unique_filename, unique_filename, download_url)
    IN  IF backend = "read_fail" THEN Raised(<<>>, {})
        ELSE IF backend = "write_fail"
             THEN Raised(<<"firebase.upload_from_string">>, {})
        ELSE IF backend = "post_fail"
             THEN Raised(<<"firebase.upload_from_string", "firebase.make_public">>,
                         {blob})
        ELSE Returned(<<"firebase.upload_from_string", "firebase.make_public">>,
                      {blob},
                      Result("firebase", unique_filename, unique_filename, download_url,
                             file, user_id, file_type))

(***************************************************************************)
(* Adapters: delete_file                                                   *)
(***************************************************************************)
\* mutant: the file id is read from the fileId query parameter
_extract_file_id_from_url_ReadsFileId(file_url) ==
    IF \E i \in 1..(Len(file_url) - 1) : file_url[i] = "fileId="
    THEN <<file_url[(CHOOSE i \in 1..(Len(file_url) - 1) : file_url[i] = "fileId=") + 1]>>
    ELSE <<>>

\* the body is `return None` for every input
_extract_file_id_from_url(file_url) == <<>>

\* <<>> stands for the falsy results None and ''
BackblazeDelete(file_url, backend) ==
    LET file_id == _extract_file_id_from_url(file_url)
    IN  IF file_id = <<>> THEN Deleted(FALSE, <<>>, {})
        ELSE IF backend = "fail"
             THEN Deleted(FALSE, <<"b2.get_file_info">>, {})
        ELSE IF \E o \in store["backblaze"] : o.id = file_id
             THEN Deleted(TRUE, <<"b2.get_file_info", "b2.delete_file_version">>,
                          {file_id})
        ELSE Deleted(FALSE, <<"b2.get_file_info">>, {})

\* index of the first piece equal to 'upload', 0 if none (upload_index = -1)
RECURSIVE UploadIndex(_, _)
UploadIndex(parts, i) ==
    IF i > Len(parts) THEN 0
    ELSE IF parts[i] = <<"upload">> THEN i
    ELSE UploadIndex(parts, i + 1)

_extract_public_id_from_url(file_url) ==
    LET parts == Split(file_url, <<"/">>)
        upload_index == UploadIndex(parts, 1)
    IN  IF Contains(file_url, <<"cloudinary.com">>) /\ Len(parts) >= 6
           /\ upload_index > 0 /\ upload_index + 1 <= Len(parts)
        THEN RSplitDotHead(parts[upload_index + 1])
        ELSE <<>>

_determine_resource_type_from_url(file_url) ==
    IF Contains(file_url, <<"/", "video", "/", "upload", "/">>) THEN "video"
    ELSE IF Contains(file_url, <<"/", "image", "/", "upload", "/">>) THEN "image"
    ELSE IF Contains(file_url, <<"/", "raw", "/", "upload", "/">>) THEN "raw"
    ELSE "auto"

\* the resource type a stored Cloudinary object was uploaded as
StoredResourceType(o) == o.url[9]

\* cloudinary.uploader.destroy answers {'result': 'ok'} when an object of that
\* resource type has that public id, {'result': 'not found'} otherwise
CloudinaryDelete(file_url, backend) ==
    LET public_id == _extract_public_id_from_url(file_url)
        resource_type == _determine_resource_type_from_url(file_url)
    IN  IF public_id = <<>> THEN Deleted(FALSE, <<>>, {})
        ELSE IF backend = "fail" THEN Deleted(FALSE, <<"cloudinary.destroy">>, {})
        ELSE IF \E o \in store["cloudinary"] :
                    o.id = public_id /\ StoredResourceType(o) = resource_type
             THEN Deleted(TRUE, <<"cloudinary.destroy">>, {public_id})
        ELSE Deleted(FALSE, <<"cloudinary.destroy">>, {})

_extract_blob_name_from_url(file_url) ==
    LET parts == Split(file_url, <<"/", "o", "/">>)
    IN  IF Contains(file_url, <<"firebase", "storage.", "googleapis.com">>)
           /\ Len(parts) > 1
        THEN Unquote(Split(parts[2], <<"?">>)[1])
        ELSE <<>>

\* blob.delete() raises NotFound when the bucket holds no such blob
\* mutant: a blob.delete() that raised is reported as a successful delete
FirebaseDelete_TrueOnFailure(file_url, backend) ==
    LET blob_name == _extract_blob_name_from_url(file_url)
    IN  IF blob_name = <<>> THEN Deleted(FALSE, <<>>, {})
        ELSE IF backend = "fail" THEN Deleted(TRUE, <<"firebase.blob.delete">>, {})
        ELSE IF \E o \in store["firebase"] : o.id = blob_name
             THEN Deleted(TRUE, <<"firebase.blob.delete">>, {blob_name})
        ELSE Deleted(FALSE, <<"firebase.blob.delete">>, {})

FirebaseDelete(file_url, backend) ==
    LET blob_name == _extract_blob_name_from_url(file_url)
    IN  IF blob_name = <<>> THEN Deleted(FALSE, <<>>, {})
        ELSE IF backend = "fail" THEN Deleted(FALSE, <<"firebase.blob.delete">>, {})
        ELSE IF \E o \in store["firebase"] : o.id = blob_name
             THEN Deleted(TRUE, <<"firebase.blob.delete">>, {blob_name})
        ELSE Deleted(FALSE, <<"firebase.blob.delete">>, {})

\* adapter.delete_file(file_url) on the adapter named service
AdapterDelete(service, file_url, backend) ==
    CASE service = "backblaze" -> BackblazeDelete(file_url, backend)
      [] service = "cloudinary" -> CloudinaryDelete(file_url, backend)
      [] service = "firebase" -> FirebaseDelete(file_url, backend)

\* adapter.upload_file(file, user_id, file_type) on the adapter named service
AdapterUpload(service, file, user_id, file_type, backend) ==
    CASE service = "backblaze" -> BackblazeUpload(file, user_id, file_type, backend)
      [] service = "cloudinary" -> CloudinaryUpload(file, user_id, file_type, backend)
      [] service = "firebase" -> FirebaseUpload(file, user_id, file_type, backend)

(***************************************************************************)
(* StorageManager.upload_file                                              *)
(***************************************************************************)
Call(adapter, method) == [adapter |-> adapter, method |-> method]

NoneWritten == [a \in Adapters |-> {}]

\* the first configured adapter other than `tried`, in the default order
NextConfigured(tried) ==
    IF cloudinary /\ tried # "cloudinary" THEN "cloudinary"
    ELSE IF backblaze /\ tried # "backblaze" THEN "backblaze"
    ELSE IF firebase /\ tried # "firebase" THEN "firebase"
    ELSE None

\* mutant: an upload that raised is retried on the next configured adapter
upload_file_RetriesNext(file, file_type, user_id, service_preference, backend) ==
    LET target == SelectAdapter(file_type, file.size)
        r == AdapterUpload(target, file, user_id, file_type, backend)
        second == NextConfigured(target)
        r2 == AdapterUpload(second, file, user_id, file_type, "ok")
    IN  IF target \in Adapters /\ r.raised /\ second \in Adapters
        THEN [ calls |-> <<Call(target, "upload_file"), Call(second, "upload_file")>>,
               backend_ops |-> r.backend_ops \o r2.backend_ops,
               written |-> [a \in Adapters |->
                              IF a = target THEN r.written
                              ELSE IF a = second THEN r2.written ELSE {}],
               uuids |-> 1,
               outcome |-> "return_record",
               result |-> r2.result ]
        ELSE IF target \in Adapters
        THEN [ calls |-> <<Call(target, "upload_file")>>,
               backend_ops |-> r.backend_ops,
               written |-> [a \in Adapters |-> IF a = target THEN r.written ELSE {}],
               uuids |-> 1,
               outcome |-> IF r.raised THEN "raise" ELSE "return_record",
               result |-> r.result ]
        ELSE [ calls |-> <<>>,
               backend_ops |-> <<>>,
               written |-> [a \in Adapters |-> {}],
               uuids |-> 0,
               outcome |-> IF target = NoStorage THEN "raise" ELSE "return_none",
               result |-> NoResult ]

\* mutant: a configured adapter named by service_preference is used
upload_file_HonoursPreference(file, file_type, user_id, service_preference, backend) ==
    LET preferred ==
            \/ service_preference = "backblaze" /\ backblaze
            \/ service_preference = "cloudinary" /\ cloudinary
            \/ service_preference = "firebase" /\ firebase
        target == IF preferred THEN service_preference
                  ELSE SelectAdapter(file_type, file.size)
        r == AdapterUpload(target, file, user_id, file_type, backend)
    IN  IF target \in Adapters
        THEN [ calls |-> <<Call(target, "upload_file")>>,
               backend_ops |-> r.backend_ops,
               written |-> [a \in Adapters |-> IF a = target THEN r.written ELSE {}],
               uuids |-> 1,
               outcome |-> IF r.raised THEN "raise" ELSE "return_record",
               result |-> r.result ]
        ELSE [ calls |-> <<>>,
               backend_ops |-> <<>>,
               written |-> NoneWritten,
               uuids |-> 0,
               outcome |-> IF target = NoStorage THEN "raise" ELSE "return_none",
               result |-> NoResult ]

\* What one upload_file call does: the adapter calls it makes, the backend calls
\* they issue, the objects stored, how many uuid4() values were drawn, and how it
\* ends: "return_record" (an adapter's result dict), "return_none" (a recognised
\* branch ended without a return statement) or "raise" (lines 121-123 re-raise
\* whatever the try block raised). service_preference is never read.
upload_file(file, file_type, user_id, service_preference, backend) ==
    LET target == SelectAdapter(file_type, file.size)
        r == AdapterUpload(target, file, user_id, file_type, backend)
    IN  IF target \in Adapters
        THEN [ calls |-> <<Call(target, "upload_file")>>,
               backend_ops |-> r.backend_ops,
               written |-> [a \in Adapters |-> IF a = target THEN r.written ELSE {}],
               uuids |-> 1,
               outcome |-> IF r.raised THEN "raise" ELSE "return_record",
               result |-> r.result ]
        ELSE [ calls |-> <<>>,
               backend_ops |-> <<>>,
               written |-> NoneWritten,
               uuids |-> 0,
               outcome |-> IF target = NoStorage THEN "raise" ELSE "return_none",
               result |-> NoResult ]

(***************************************************************************)
(* StorageManager.delete_file                                              *)
(***************************************************************************)
Hints == {None, "", "backblaze", "cloudinary", "firebase", "s3"}

\* mutant: a URL that matches no pattern is taken for a general-bucket URL
InferService_GuessesFirebase(file_url) ==
    IF Contains(file_url, <<"backblazeb2.com">>) \/ Contains(file_url, <<"b2-api.com">>)
    THEN "backblaze"
    ELSE IF Contains(file_url, <<"cloudinary.com">>) THEN "cloudinary"
    ELSE "firebase"

\* lines 169-174: the service named by the first matching pattern, None if none
InferService(file_url) ==
    IF Contains(file_url, <<"backblazeb2.com">>) \/ Contains(file_url, <<"b2-api.com">>)
    THEN "backblaze"
    ELSE IF Contains(file_url, <<"cloudinary.com">>) THEN "cloudinary"
    ELSE IF Contains(file_url, <<"firebase">>) \/ Contains(file_url, <<"googleapis.com">>)
    THEN "firebase"
    ELSE None

\* service_type after lines 168-174: `not service_type` holds for None and ''
ResolveService(file_url, service_type) ==
    IF service_type \in {None, ""}
    THEN IF InferService(file_url) # None THEN InferService(file_url) ELSE service_type
    ELSE service_type

\* mutant: without a hint, the first provider whose pattern matches and which is
\* configured
DeleteTarget_TriesNextMatch(file_url, service_type) ==
    IF service_type \in {None, ""}
    THEN IF backblaze /\ (Contains(file_url, <<"backblazeb2.com">>)
                          \/ Contains(file_url, <<"b2-api.com">>))
         THEN "backblaze"
         ELSE IF cloudinary /\ Contains(file_url, <<"cloudinary.com">>)
         THEN "cloudinary"
         ELSE IF firebase /\ (Contains(file_url, <<"firebase">>)
                              \/ Contains(file_url, <<"googleapis.com">>))
         THEN "firebase"
         ELSE None
    ELSE IF service_type = "backblaze" /\ backblaze THEN "backblaze"
    ELSE IF service_type = "cloudinary" /\ cloudinary THEN "cloudinary"
    ELSE IF service_type = "firebase" /\ firebase THEN "firebase"
    ELSE None

\* lines 177-182: the adapter whose delete_file is called, None if none is
DeleteTarget(file_url, service_type) ==
    LET st == ResolveService(file_url, service_type)
    IN  IF st = "backblaze" /\ backblaze THEN "backblaze"
        ELSE IF st = "cloudinary" /\ cloudinary THEN "cloudinary"
        ELSE IF st = "firebase" /\ firebase THEN "firebase"
        ELSE None

NoneRemoved == [a \in Adapters |-> {}]

delete_file(file_url, service_type, backend) ==
    LET target == DeleteTarget(file_url, service_type)
        d == AdapterDelete(target, file_url, backend)
    IN  IF target \in Adapters
        THEN [ calls |-> <<Call(target, "delete_file")>>,
               backend_ops |-> d.backend_ops,
               removed |-> [a \in Adapters |-> IF a = target THEN d.removed ELSE {}],
               outcome |-> IF d.value THEN "return_true" ELSE "return_false" ]
        ELSE [ calls |-> <<>>,
               backend_ops |-> <<>>,
               removed |-> NoneRemoved,
               outcome |-> "return_false" ]

(***************************************************************************)
(* Adapters: get_signed_url                                                *)
(***************************************************************************)
\* what an adapter's get_signed_url did: the string it returned, the signing
\* calls it issued, and the value it passed them as the URL's expiry (0 if none)
Signed(value, backend_ops, expires_at) ==
    [value |-> value, backend_ops |-> backend_ops, expires_at |-> expires_at]

\* returns file_url, whatever expiry_hours is
BackblazeSign(file_url, expiry_hours, backend) == Signed(file_url, <<>>, 0)

\* cloudinary.utils.private_download_url(public_id, format='auto', expires_at=...)
CloudinaryPrivateDownloadUrl(public_id, expires_at) ==
    <<"https:", "/", "/", "api.", "cloudinary.com", "/", "v1_1", "/", "demo", "/",
      "image", "/", "download", "?", "public_id=">> \o public_id
    \o <<"&", "format=", "auto", "&", "expires_at=", ToString(expires_at)>>

\* mutant: a failed signing returns nothing instead of the original URL
CloudinarySign_NothingOnFailure(file_url, expiry_hours, backend) ==
    LET public_id == _extract_public_id_from_url(file_url)
        ops == <<"cloudinary.private_download_url">>
    IN  IF public_id = <<>> THEN Signed(file_url, <<>>, 0)
        ELSE IF backend = "fail" THEN Signed(<<>>, ops, expiry_hours * 3600)
        ELSE Signed(CloudinaryPrivateDownloadUrl(public_id, expiry_hours * 3600),
                    ops, expiry_hours * 3600)

CloudinarySign(file_url, expiry_hours, backend) ==
    LET public_id == _extract_public_id_from_url(file_url)
        ops == <<"cloudinary.private_download_url">>
    IN  IF public_id = <<>> THEN Signed(file_url, <<>>, 0)
        ELSE IF backend = "fail" THEN Signed(file_url, ops, expiry_hours * 3600)
        ELSE Signed(CloudinaryPrivateDownloadUrl(public_id, expiry_hours * 3600),
                    ops, expiry_hours * 3600)

\* blob.generate_signed_url(expiration=..., method='GET')
FirebaseGeneratedSignedUrl(blob_name, expiration) ==
    <<"https:", "/", "/", "storage.", "googleapis.com", "/", FirebaseBucket, "/">>
    \o blob_name
    \o <<"?", "Expires=", ToString(expiration), "&", "Signature=", "sig">>

FirebaseSign(file_url, expiry_hours, backend) ==
    LET blob_name == _extract_blob_name_from_url(file_url)
        ops == <<"firebase.generate_signed_url">>
    IN  IF blob_name = <<>> THEN Signed(file_url, <<>>, 0)
        ELSE IF backend = "fail" THEN Signed(file_url, ops, expiry_hours * 3600)
        ELSE Signed(FirebaseGeneratedSignedUrl(blob_name, expiry_hours * 3600),
                    ops, expiry_hours * 3600)

\* adapter.get_signed_url(file_url, expiry_hours) on the adapter named service
AdapterSign(service, file_url, expiry_hours, backend) ==
    CASE service = "backblaze" -> BackblazeSign(file_url, expiry_hours, backend)
      [] service = "cloudinary" -> CloudinarySign(file_url, expiry_hours, backend)
      [] service = "firebase" -> FirebaseSign(file_url, expiry_hours, backend)

(***************************************************************************)
(* Adapters: list_files                                                    *)
(***************************************************************************)
\* what an adapter's list_files did: the objects its list describes and the
\* backend calls it issued
Listed(files, backend_ops) == [files |-> files, backend_ops |-> backend_ops]

\* str.startswith
StartsWith(s, prefix) ==
    Len(s) >= Len(prefix) /\ SubSeq(s, 1, Len(prefix)) = prefix

\* `if file_type:` fails for None and ''
NoFileType(file_type) == file_type \in {None, ""}

\* the possible first n of a set of objects, the backend choosing the order
FirstOf(objects, n) ==
    {S \in SUBSET objects :
        Cardinality(S) = IF n < Cardinality(objects) THEN n ELSE Cardinality(objects)}

\* the loop appends a file and then leaves when len(files) >= limit
BackblazeList(user_id, file_type, limit, backend) ==
    LET prefix == <<user_id, "/">>
                  \o (IF NoFileType(file_type) THEN <<>> ELSE <<file_type, "/">>)
        matching == {o \in store["backblaze"] : StartsWith(o.name, prefix)}
    IN  IF backend = "fail" THEN {Listed({}, <<"b2.ls">>)}
        ELSE {Listed(S, <<"b2.ls">>) :
                S \in FirstOf(matching, IF limit < 1 THEN 1 ELSE limit)}

\* Search().expression("folder:video-editor/{user_id}[ AND tags:{file_type}]")
\*         .max_results(limit)
CloudinaryList(user_id, file_type, limit, backend) ==
    LET matching == {o \in store["cloudinary"] :
                        /\ o.folder = CloudinaryFolder(user_id)
                        /\ NoFileType(file_type) \/ file_type \in o.tags}
    IN  IF backend = "fail" THEN {Listed({}, <<"cloudinary.search">>)}
        ELSE {Listed(S, <<"cloudinary.search">>) : S \in FirstOf(matching, limit)}

\* mutant: the prefix is the user id followed by the file type
FirebaseList_UserFirstPrefix(user_id, file_type, limit, backend) ==
    LET prefix == IF NoFileType(file_type) THEN <<"*", "/", user_id, "/">>
                  ELSE <<user_id, "/", file_type, "/">>
        matching == {o \in store["firebase"] : StartsWith(o.name, prefix)}
    IN  IF backend = "fail" THEN {Listed({}, <<"firebase.list_blobs">>)}
        ELSE {Listed(S, <<"firebase.list_blobs">>) : S \in FirstOf(matching, limit)}

\* bucket.list_blobs(prefix=prefix, max_results=limit)
FirebaseList(user_id, file_type, limit, backend) ==
    LET prefix == IF NoFileType(file_type) THEN <<"*", "/", user_id, "/">>
                  ELSE <<file_type, "/", user_id, "/">>
        matching == {o \in store["firebase"] : StartsWith(o.name, prefix)}
    IN  IF backend = "fail" THEN {Listed({}, <<"firebase.list_blobs">>)}
        ELSE {Listed(S, <<"firebase.list_blobs">>) : S \in FirstOf(matching, limit)}

\* adapter.list_files(user_id, file_type, limit) on the adapter named service
AdapterList(service, user_id, file_type, limit, backend) ==
    CASE service = "backblaze" -> BackblazeList(user_id, file_type, limit, backend)
      [] service = "cloudinary" -> CloudinaryList(user_id, file_type, limit, backend)
      [] service = "firebase" -> FirebaseList(user_id, file_type, limit, backend)

(***************************************************************************)
(* StorageManager.get_download_url                                         *)
(***************************************************************************)
\* lines 204-209: the adapter whose get_signed_url is called, None if none is
SignTarget(file_url) ==
    IF Contains(file_url, <<"backblazeb2.com">>) /\ backblaze THEN "backblaze"
    ELSE IF Contains(file_url, <<"cloudinary.com">>) /\ cloudinary THEN "cloudinary"
    ELSE IF Contains(file_url, <<"firebase">>) /\ firebase THEN "firebase"
    ELSE None

get_download_url(file_url, expiry_hours, backend) ==
    LET target == SignTarget(file_url)
        g == AdapterSign(target, file_url, expiry_hours, backend)
    IN  IF target \in Adapters
        THEN [ calls |-> <<Call(target, "get_signed_url")>>,
               backend_ops |-> g.backend_ops,
               outcome |-> "return_url",
               value |-> g.value,
               expires_at |-> g.expires_at ]
        ELSE [ calls |-> <<>>,
               backend_ops |-> <<>>,
               outcome |-> "return_url",
               value |-> file_url,
               expires_at |-> 0 ]

ExpiryHours == {1, 24}

SignBackendOutcomes == {"ok", "fail"}

\* the instants (seconds since the epoch) at which get_download_url is called
CallTimes == {1700000000, 1700003600}

(***************************************************************************)
(* StorageManager.get_service_status / get_storage_info                    *)
(***************************************************************************)
get_service_status ==
    [a \in Adapters |->
        CASE a = "backblaze" -> backblaze
          [] a = "cloudinary" -> cloudinary
          [] a = "firebase" -> firebase]

\* info[provider]['service']
ServiceNames ==
    [a \in Adapters |->
        CASE a = "backblaze" -> "Backblaze B2"
          [] a = "cloudinary" -> "Cloudinary"
          [] a = "firebase" -> "Firebase Storage"]

\* mutant: the description of every provider, configured or not
get_storage_info_DescribesAll == [a \in Adapters |-> ServiceNames[a]]

\* the mapping holds an entry for each adapter attribute that is truthy
get_storage_info ==
    [a \in {b \in Adapters :
               CASE b = "backblaze" -> backblaze
                 [] b = "cloudinary" -> cloudinary
                 [] b = "firebase" -> firebase} |-> ServiceNames[a]]

(***************************************************************************)
(* URLs a caller may hand to delete_file and get_download_url              *)
(***************************************************************************)
UrlUnknown == <<"https:", "/", "/", "example.com", "/", "file", ".", "mp4">>

UrlEmpty == <<>>

UrlB2Api ==
    <<"https:", "/", "/", "api002.", "b2-api.com", "/", "b2api", "/", "v2", "/",
      "b2_download_file_by_id", "?", "fileId=", B2FileId(0)>>

UrlCloudinaryFlat ==
    <<"https:", "/", "/", "res.", "cloudinary.com", "/", "demo", "/", "image", "/",
      "upload", "/", "sample", ".", "png">>

\* a Cloudinary URL whose public id contains 'firebase'
UrlCloudinaryFirebase ==
    <<"https:", "/", "/", "res.", "cloudinary.com", "/", "demo", "/", "image", "/",
      "upload", "/", "firebase", ".", "png">>

\* urllib.parse.quote(name, safe='') on the tokens in use
Quote(s) == [i \in 1..Len(s) |-> IF s[i] = "/" THEN "%2F" ELSE s[i]]

\* the Firebase download-API form of a blob's URL
FirebaseApiUrl(blob_name) ==
    <<"https:", "/", "/", "firebase", "storage.", "googleapis.com", "/", "v0", "/",
      "b", "/", FirebaseBucket, "/", "o", "/">>
    \o Quote(blob_name) \o <<"?", "alt=media">>

\* a Firebase download-API URL of a blob whose name contains 'cloudinary.com'
UrlFirebaseCloudinary == FirebaseApiUrl(<<"cloudinary.com", "/", "a", ".", "png">>)

\* a Backblaze friendly URL of a file whose name contains 'cloudinary.com'
UrlB2Cloudinary ==
    <<"https:", "/", "/", "f002.", "backblazeb2.com", "/", "file", "/", "bucket", "/",
      "cloudinary.com", "/", "a", ".", "png">>

SampleUrls ==
    {UrlUnknown, UrlEmpty, UrlB2Api, UrlCloudinaryFlat, UrlCloudinaryFirebase,
     UrlB2Cloudinary}

StoredUrls ==
    UNION { {o.url : o \in store[a]} : a \in Adapters }
    \cup {FirebaseApiUrl(o.name) : o \in store["firebase"]}

DeleteBackendOutcomes == {"ok", "fail"}

(***************************************************************************)
(* State machine                                                           *)
(***************************************************************************)
NotCalled == "not_called"

\* placeholder where a call was given no file
NoFile == [filename |-> <<>>, content_type |-> <<>>, size |-> 0]

\* values of upload_file's service_preference argument
Preferences == {None, "backblaze", "cloudinary", "firebase"}

\* placeholders where a call returned no status or info mapping
NoStatus == [a \in Adapters |-> FALSE]

NoInfo == [a \in {} |-> ""]

\* request-handling threads that call into one StorageManager
Threads == {"t1", "t2"}

\* a thread that is in no call. pc is the thread's position: "idle", "select"
\* (about to choose the adapter), "adapter" (about to run the adapter method),
\* "return" (the adapter method has run, the call has not returned), "done".
IdleThread ==
    [ pc |-> "idle", op |-> "idle", file_type |-> None, backend |-> NotCalled,
      url |-> <<>>, target |-> None, outcome |-> "idle", written |-> {},
      file_name |-> <<>>, listing |-> {}, service |-> None ]

\* no call is waiting for its caller
Idle ==
    [ op |-> "idle", file_type |-> None, file_size |-> 0, url |-> <<>>,
      hint |-> None, backend |-> NotCalled, calls |-> <<>>,
      backend_ops |-> <<>>, outcome |-> "idle", result |-> NoResult,
      user_id |-> None, limit |-> 0, value |-> <<>>, listing |-> {},
      status |-> NoStatus, info |-> NoInfo,
      now |-> 0, expiry_hours |-> 0, expires_at |-> 0,
      file |-> NoFile, service_preference |-> None ]

Init ==
    /\ env \in Envs
    /\ backblaze = _initialize_services(env).backblaze
    /\ cloudinary = _initialize_services(env).cloudinary
    /\ firebase = _initialize_services(env).firebase
    /\ store = [a \in Adapters |-> {}]
    /\ nextUuid = 0
    /\ issued = <<>>
    /\ last = Idle
    /\ threads = [t \in Threads |-> IdleThread]

\* the fields of a result dict that identify the object and its upload
Issued(result) ==
    [ service |-> result.service,
      file_name |-> result.file_name,
      download_url |-> result.download_url,
      user_id |-> result.user_id,
      file_type |-> result.file_type,
      original_filename |-> result.original_filename ]

\* mutant: an adapter whose upload raised is dropped from the manager
UploadCall_DropsFailedAdapter(file_type, shape, file_size, user_id, service_preference, backend) ==
    \E file \in {File(shape, file_size)} :
    \E e \in {upload_file(file, file_type, user_id, service_preference, backend)} :
        /\ store' = [a \in Adapters |-> store[a] \cup e.written[a]]
        /\ nextUuid' = nextUuid + e.uuids
        /\ issued' = IF e.outcome = "return_record"
                     THEN Append(issued, Issued(e.result)) ELSE issued
        /\ last' = [ Idle EXCEPT
                        !.op = "upload_file", !.file_type = file_type,
                        !.file_size = file.size, !.user_id = user_id,
                        !.file = file, !.service_preference = service_preference,
                        !.backend = IF e.calls = <<>> THEN NotCalled ELSE backend,
                        !.calls = e.calls, !.backend_ops = e.backend_ops,
                        !.outcome = e.outcome, !.result = e.result ]
        /\ backblaze' = (backblaze /\ ~(e.outcome = "raise"
                                        /\ e.calls = <<Call("backblaze", "upload_file")>>))
        /\ cloudinary' = (cloudinary /\ ~(e.outcome = "raise"
                                        /\ e.calls = <<Call("cloudinary", "upload_file")>>))
        /\ firebase' = (firebase /\ ~(e.outcome = "raise"
                                        /\ e.calls = <<Call("firebase", "upload_file")>>))
        /\ UNCHANGED <<threads, env>>

\* one upload_file call, run to its end
UploadCall(file_type, shape, file_size, user_id, service_preference, backend) ==
    \E file \in {File(shape, file_size)} :
    \E e \in {upload_file(file, file_type, user_id, service_preference, backend)} :
        /\ store' = [a \in Adapters |-> store[a] \cup e.written[a]]
        /\ nextUuid' = nextUuid + e.uuids
        /\ issued' = IF e.outcome = "return_record"
                     THEN Append(issued, Issued(e.result)) ELSE issued
        /\ last' = [ Idle EXCEPT
                        !.op = "upload_file", !.file_type = file_type,
                        !.file_size = file.size, !.user_id = user_id,
                        !.file = file, !.service_preference = service_preference,
                        !.backend = IF e.calls = <<>> THEN NotCalled ELSE backend,
                        !.calls = e.calls, !.backend_ops = e.backend_ops,
                        !.outcome = e.outcome, !.result = e.result ]
        /\ UNCHANGED <<threads, env, backblaze, cloudinary, firebase>>

\* a caller calls upload_file
UploadFile ==
    /\ last = Idle
    /\ nextUuid < MaxUploads
    /\ \E file_type \in FileTypes, shape \in FileShapes, user_id \in Users,
          service_preference \in Preferences, backend \in BackendOutcomes :
        \E file_size \in SizesFor(file_type) :
            UploadCall(file_type, shape, file_size, user_id, service_preference,
                       backend)

\* one delete_file call, run to its end
DeleteCall(file_url, service_type, backend) ==
    \E e \in {delete_file(file_url, service_type, backend)} :
        /\ store' = [a \in Adapters |-> {o \in store[a] : o.id \notin e.removed[a]}]
        /\ last' = [ Idle EXCEPT
                        !.op = "delete_file", !.url = file_url, !.hint = service_type,
                        !.backend = IF e.backend_ops = <<>> THEN NotCalled ELSE backend,
                        !.calls = e.calls, !.backend_ops = e.backend_ops,
                        !.outcome = e.outcome ]
        /\ UNCHANGED <<threads, env, backblaze, cloudinary, firebase, nextUuid, issued>>

\* a caller calls delete_file
DeleteFile ==
    /\ last = Idle
    /\ \E file_url \in SampleUrls \cup StoredUrls, service_type \in Hints,
          backend \in DeleteBackendOutcomes :
            DeleteCall(file_url, service_type, backend)

\* a caller calls get_download_url; the call runs to its end
GetDownloadUrl ==
    /\ last = Idle
    /\ \E file_url \in SampleUrls \cup {UrlFirebaseCloudinary} \cup StoredUrls,
          expiry_hours \in ExpiryHours, backend \in SignBackendOutcomes,
          now \in CallTimes :
        \E e \in {get_download_url(file_url, expiry_hours, backend)} :
            /\ last' = [ Idle EXCEPT
                            !.op = "get_download_url", !.url = file_url,
                            !.now = now, !.expiry_hours = expiry_hours,
                            !.expires_at = e.expires_at,
                            !.backend = IF e.backend_ops = <<>> THEN NotCalled
                                        ELSE backend,
                            !.calls = e.calls, !.backend_ops = e.backend_ops,
                            !.outcome = e.outcome, !.value = e.value ]
            /\ UNCHANGED <<threads, env, backblaze, cloudinary, firebase, store, nextUuid,
                           issued>>

\* the adapter object exists (its constructor succeeded)
IsConfigured(service) ==
    CASE service = "backblaze" -> backblaze
      [] service = "cloudinary" -> cloudinary
      [] service = "firebase" -> firebase

\* file types, users and outcomes of the uploads that fill the stores before a
\* listing: one type of each affinity set
StoredTypes == {"remix_video", "editor_video", "user_avatar"}

StoredShape == [filename |-> <<"clip", ".", "MP4">>, content_type |-> <<"video/", "mp4">>]

StoredBackendOutcomes == {"ok", "write_fail"}

\* a caller calls upload_file, up to MaxStored times
UploadStored ==
    /\ last = Idle
    /\ nextUuid < MaxStored
    /\ \E file_type \in StoredTypes, user_id \in Users,
          backend \in StoredBackendOutcomes :
            UploadCall(file_type, StoredShape, SmallThreshold - 1, user_id, None,
                       backend)

ListTypes == {None} \cup StoredTypes

Limits == {0, 1, 100}

ListBackendOutcomes == {"ok", "fail"}

\* a caller calls list_files of a configured adapter; the call runs to its end
ListFiles ==
    /\ last = Idle
    /\ \E service \in Adapters, user_id \in Users, file_type \in ListTypes,
          limit \in Limits, backend \in ListBackendOutcomes :
        /\ IsConfigured(service)
        /\ \E e \in AdapterList(service, user_id, file_type, limit, backend) :
            /\ last' = [ Idle EXCEPT
                            !.op = "list_files", !.user_id = user_id,
                            !.file_type = file_type, !.limit = limit,
                            !.backend = backend,
                            !.calls = <<Call(service, "list_files")>>,
                            !.backend_ops = e.backend_ops,
                            !.outcome = "return_list", !.listing = e.files ]
            /\ UNCHANGED <<threads, env, backblaze, cloudinary, firebase, store, nextUuid,
                           issued>>

\* a caller calls get_service_status
GetServiceStatus ==
    /\ last = Idle
    /\ last' = [ Idle EXCEPT
                    !.op = "get_service_status", !.outcome = "return_dict",
                    !.status = get_service_status ]
    /\ UNCHANGED <<threads, env, backblaze, cloudinary, firebase, store, nextUuid,
                 issued>>

\* a caller calls get_storage_info
GetStorageInfo ==
    /\ last = Idle
    /\ last' = [ Idle EXCEPT
                    !.op = "get_storage_info", !.outcome = "return_dict",
                    !.info = get_storage_info ]
    /\ UNCHANGED <<threads, env, backblaze, cloudinary, firebase, store, nextUuid,
                 issued>>

\* the caller takes the outcome of the call that has just ended
Return ==
    /\ last # Idle
    /\ last' = Idle
    /\ UNCHANGED <<threads, env, backblaze, cloudinary, firebase, store, nextUuid,
                 issued>>

\* content types and extensions _get_resource_type is applied to
ContentTypes ==
    { <<>>, <<"video/", "mp4">>, <<"audio/", "mpeg">>, <<"image/", "png">>,
      <<"application/", "pdf">>, <<"text/", "plain">>, <<"Video/", "mp4">> }

FileExtensions ==
    {<<>>} \cup
    {<<".", e>> : e \in VideoExtensions \cup AudioExtensions \cup ImageExtensions
                        \cup {"pdf", "txt", "MP4", "PNG"}}

\* CloudinaryService.upload_file classifies a file
GetResourceType ==
    /\ last = Idle
    /\ \E content_type \in ContentTypes, file_extension \in FileExtensions :
        last' = [ op |-> "_get_resource_type",
                  content_type |-> content_type,
                  file_extension |-> file_extension,
                  resource_type |-> _get_resource_type(content_type, file_extension) ]
    /\ UNCHANGED <<threads, env, backblaze, cloudinary, firebase, store, nextUuid,
                 issued>>

\* CloudinaryService._get_resource_type over content types and extensions
NextClassify == GetResourceType \/ Return

SpecClassify == Init /\ [][NextClassify]_vars

(***************************************************************************)
(* Concurrent calls: each call is cut where it reads the manager's         *)
(* attributes, where its adapter method talks to the backend, and where it *)
(* returns                                                                 *)
(***************************************************************************)
ConcurrentTypes == {"remix_video", "user_avatar"}

ConcurrentUser == "u1"

ConcurrentFile == File(StoredShape, SmallThreshold - 1)

ConcurrentBackendOutcomes == {"ok", "write_fail"}

\* uploads that have been called and have not drawn their uuid4() yet
PendingUploads ==
    {t \in Threads : threads[t].op = "upload_file"
                      /\ threads[t].pc \in {"select", "adapter"}}

\* thread t calls upload_file
BeginUpload(t) ==
    /\ threads[t].pc = "idle"
    /\ nextUuid + Cardinality(PendingUploads) < MaxStored
    /\ \E file_type \in ConcurrentTypes, backend \in ConcurrentBackendOutcomes :
        threads' = [threads EXCEPT ![t] =
                      [ IdleThread EXCEPT !.pc = "select", !.op = "upload_file",
                                          !.file_type = file_type,
                                          !.backend = backend ]]
    /\ UNCHANGED <<env, backblaze, cloudinary, firebase, store, nextUuid, issued, last>>

\* thread t calls delete_file without a hint
BeginDelete(t) ==
    /\ threads[t].pc = "idle"
    /\ \E file_url \in StoredUrls :
        threads' = [threads EXCEPT ![t] =
                      [ IdleThread EXCEPT !.pc = "select", !.op = "delete_file",
                                          !.url = file_url, !.backend = "ok" ]]
    /\ UNCHANGED <<env, backblaze, cloudinary, firebase, store, nextUuid, issued, last>>

\* thread t calls list_files of a configured adapter
BeginList(t) ==
    /\ threads[t].pc = "idle"
    /\ \E service \in Adapters, file_type \in ConcurrentTypes :
        /\ IsConfigured(service)
        /\ threads' = [threads EXCEPT ![t] =
                         [ IdleThread EXCEPT !.pc = "adapter", !.op = "list_files",
                                             !.file_type = file_type,
                                             !.service = service,
                                             !.target = service, !.backend = "ok" ]]
    /\ UNCHANGED <<env, backblaze, cloudinary, firebase, store, nextUuid, issued, last>>

\* mutant: the chosen adapter is kept in an attribute of the manager, which every
\* call in flight reads when it reaches its adapter
SelectStep_SharedAttribute(t) ==
    /\ threads[t].pc = "select"
    /\ \E target \in {IF threads[t].op = "upload_file"
                        THEN SelectAdapter(threads[t].file_type, ConcurrentFile.size)
                        ELSE DeleteTarget(threads[t].url, None)} :
        threads' = [u \in Threads |->
                      IF u = t
                      THEN IF target \in Adapters
                           THEN [threads[t] EXCEPT !.pc = "adapter", !.target = target]
                           ELSE [threads[t] EXCEPT
                                    !.pc = "done", !.target = target,
                                    !.outcome =
                                        IF threads[t].op = "delete_file"
                                        THEN "return_false"
                                        ELSE IF target = NoStorage THEN "raise"
                                        ELSE "return_none"]
                      ELSE IF threads[u].pc = "adapter" /\ target \in Adapters
                      THEN [threads[u] EXCEPT !.target = target]
                      ELSE threads[u]]
    /\ UNCHANGED <<env, backblaze, cloudinary, firebase, store, nextUuid, issued, last>>

\* thread t reads the manager's attributes and chooses the adapter
\* (upload_file lines 91-119, delete_file lines 166-185)
SelectStep(t) ==
    /\ threads[t].pc = "select"
    /\ \E target \in {IF threads[t].op = "upload_file"
                        THEN SelectAdapter(threads[t].file_type, ConcurrentFile.size)
                        ELSE DeleteTarget(threads[t].url, None)} :
        threads' = [threads EXCEPT ![t] =
                      IF target \in Adapters
                      THEN [threads[t] EXCEPT !.pc = "adapter", !.target = target]
                      ELSE [threads[t] EXCEPT
                               !.pc = "done", !.target = target,
                               !.outcome =
                                   IF threads[t].op = "delete_file" THEN "return_false"
                                   ELSE IF target = NoStorage THEN "raise"
                                   ELSE "return_none"]]
    /\ UNCHANGED <<env, backblaze, cloudinary, firebase, store, nextUuid, issued, last>>

\* thread t runs the adapter method it chose: the key is drawn and the backend
\* called
AdapterStep(t) ==
    /\ threads[t].pc = "adapter"
    /\ \/ /\ threads[t].op = "upload_file"
          /\ \E r \in {AdapterUpload(threads[t].target, ConcurrentFile, ConcurrentUser,
                                      threads[t].file_type, threads[t].backend)} :
                /\ store' = [store EXCEPT ![threads[t].target] = @ \cup r.written]
                /\ nextUuid' = nextUuid + 1
                /\ threads' = [threads EXCEPT ![t] =
                                 [threads[t] EXCEPT
                                    !.pc = "return",
                                    !.outcome = IF r.raised THEN "raise"
                                                ELSE "return_record",
                                    !.written = r.written,
                                    !.file_name = r.result.file_name]]
          /\ UNCHANGED issued
       \/ /\ threads[t].op = "delete_file"
          /\ \E d \in {AdapterDelete(threads[t].target, threads[t].url,
                                      threads[t].backend)} :
                /\ store' = [store EXCEPT ![threads[t].target] =
                                {o \in @ : o.id \notin d.removed}]
                /\ threads' = [threads EXCEPT ![t] =
                                 [threads[t] EXCEPT
                                    !.pc = "return",
                                    !.outcome = IF d.value THEN "return_true"
                                                ELSE "return_false"]]
          /\ UNCHANGED <<nextUuid, issued>>
       \/ /\ threads[t].op = "list_files"
          /\ \E e \in AdapterList(threads[t].target, ConcurrentUser,
                                   threads[t].file_type, 100, threads[t].backend) :
                threads' = [threads EXCEPT ![t] =
                              [threads[t] EXCEPT
                                 !.pc = "return", !.outcome = "return_list",
                                 !.listing = e.files]]
          /\ UNCHANGED <<store, nextUuid, issued>>
    /\ UNCHANGED <<env, backblaze, cloudinary, firebase, last>>

\* the call of thread t returns to its caller
ReturnStep(t) ==
    /\ threads[t].pc = "return"
    /\ threads' = [threads EXCEPT ![t] = [threads[t] EXCEPT !.pc = "done"]]
    /\ UNCHANGED <<env, backblaze, cloudinary, firebase, store, nextUuid, issued, last>>

\* thread t is free for its next request
Finish(t) ==
    /\ threads[t].pc = "done"
    /\ threads' = [threads EXCEPT ![t] = IdleThread]
    /\ UNCHANGED <<env, backblaze, cloudinary, firebase, store, nextUuid, issued, last>>

NextConcurrent ==
    \E t \in Threads :
        \/ BeginUpload(t)
        \/ BeginDelete(t)
        \/ BeginList(t)
        \/ SelectStep(t)
        \/ AdapterStep(t)
        \/ ReturnStep(t)
        \/ Finish(t)

SpecConcurrent == Init /\ [][NextConcurrent]_vars

\* upload_file over every file type, size, name and backend outcome
Next == UploadFile \/ Return

Spec == Init /\ [][Next]_vars

\* every operation over stores of up to MaxStored objects
NextStored ==
    \/ UploadStored
    \/ DeleteFile
    \/ GetDownloadUrl
    \/ ListFiles
    \/ GetServiceStatus
    \/ GetStorageInfo
    \/ Return

SpecStored == Init /\ [][NextStored]_vars

(***************************************************************************)
(* Properties                                                              *)
(***************************************************************************)
IsUpload == last.op = "upload_file"

IsDelete == last.op = "delete_file"

\* the adapters whose method the call invoked, in order
Delegations == [i \in 1..Len(last.calls) |-> last.calls[i].adapter]

\* the first configured adapter of an order, as a sequence of zero or one adapter
FirstConfigured(order) ==
    LET configured == [a \in Adapters |->
                          CASE a = "backblaze" -> backblaze
                            [] a = "cloudinary" -> cloudinary
                            [] a = "firebase" -> firebase]
        hits == SelectSeq(order, LAMBDA a : configured[a])
    IN  IF hits = <<>> THEN <<>> ELSE <<hits[1]>>

\* C1: an upload whose file_type is remix_video, remix_audio or remix_thumbnail is
\* delegated to the archival adapter when it is configured, otherwise to the
\* CDN-media adapter when that one is configured, and never to the general bucket.
C1_RemixPrefersArchival ==
    (IsUpload /\ last.file_type \in RemixTypes) =>
        /\ Delegations = FirstConfigured(<<"backblaze", "cloudinary">>)
        /\ \A i \in 1..Len(Delegations) : Delegations[i] # "firebase"

C1_Witness ==
    /\ IsUpload /\ last.file_type = "remix_video"
    /\ ~backblaze /\ cloudinary /\ firebase
    /\ Delegations = <<"cloudinary">>

\* C2: an upload whose file_type is editor_video, editor_audio, editor_image or
\* project_export is delegated to the CDN-media adapter when it is configured,
\* otherwise to the archival adapter when that one is configured, and never to the
\* general bucket.
C2_EditorPrefersCdn ==
    (IsUpload /\ last.file_type \in EditorTypes) =>
        /\ Delegations = FirstConfigured(<<"cloudinary", "backblaze">>)
        /\ \A i \in 1..Len(Delegations) : Delegations[i] # "firebase"

C2_Witness ==
    /\ IsUpload /\ last.file_type = "project_export"
    /\ ~cloudinary /\ backblaze /\ firebase
    /\ Delegations = <<"backblaze">>

\* C3: an upload whose file_type is user_avatar, template_thumbnail or
\* effect_preview is delegated to the first configured adapter in the order
\* general bucket, CDN-media, archival.
C3_SharedPrefersGeneralBucket ==
    (IsUpload /\ last.file_type \in SharedTypes) =>
        Delegations = FirstConfigured(<<"firebase", "cloudinary", "backblaze">>)

C3_Witness ==
    /\ IsUpload /\ last.file_type = "user_avatar"
    /\ ~firebase /\ cloudinary /\ backblaze
    /\ Delegations = <<"cloudinary">>

\* C4: an upload with an unrecognised file_type and a size of at least 100 MB (the
\* value 100 MB included) is delegated to CDN-media if configured, otherwise to
\* archival if configured, otherwise to the general bucket if configured.
C4_LargePrefersCdnThenArchival ==
    (IsUpload /\ last.file_type \notin (RemixTypes \cup EditorTypes \cup SharedTypes)
        /\ last.file_size >= 100 * 1024 * 1024) =>
        Delegations = FirstConfigured(<<"cloudinary", "backblaze", "firebase">>)

\* exactly 100 MB, archival and general bucket configured, CDN-media not
C4_Witness ==
    /\ IsUpload /\ last.file_type = "document"
    /\ last.file_size = 100 * 1024 * 1024
    /\ ~cloudinary /\ backblaze /\ firebase
    /\ Delegations = <<"backblaze">>

\* C5: an upload with an unrecognised file_type and a size below 10 MB is delegated
\* to the general bucket whenever it is configured, and otherwise to the first
\* configured adapter in the order CDN-media, archival.
C5_SmallPrefersGeneralBucket ==
    (IsUpload /\ last.file_type \notin (RemixTypes \cup EditorTypes \cup SharedTypes)
        /\ last.file_size < 10 * 1024 * 1024) =>
        Delegations = FirstConfigured(<<"firebase", "cloudinary", "backblaze">>)

C5_Witness ==
    /\ IsUpload /\ last.file_type = "document"
    /\ last.file_size = 10 * 1024 * 1024 - 1
    /\ firebase /\ cloudinary /\ backblaze
    /\ Delegations = <<"firebase">>

\* C6: an upload with an unrecognised file_type and 10 MB <= size < 100 MB is
\* delegated to the first configured adapter in the order CDN-media, archival,
\* general bucket.
C6_MidSizeUsesDefaultOrder ==
    (IsUpload /\ last.file_type \notin (RemixTypes \cup EditorTypes \cup SharedTypes)
        /\ last.file_size >= 10 * 1024 * 1024
        /\ last.file_size < 100 * 1024 * 1024) =>
        Delegations = FirstConfigured(<<"cloudinary", "backblaze", "firebase">>)

\* exactly 10 MB with all three adapters configured
C6_Witness ==
    /\ IsUpload /\ last.file_type = "document"
    /\ last.file_size = 10 * 1024 * 1024
    /\ firebase /\ cloudinary /\ backblaze
    /\ Delegations = <<"cloudinary">>

\* C7: an upload_file call that finds no configured adapter to use for its tag
\* ends by raising an error, and invokes no adapter's upload.
C7_NoAdapterRaises ==
    (IsUpload /\ Delegations = <<>>) => last.outcome = "raise"

\* C8: every upload_file call invokes at most one adapter's upload, and when that
\* upload fails the call raises.
C8_FailFast ==
    IsUpload =>
        /\ Len(Delegations) <= 1
        /\ (Delegations # <<>> /\ last.backend \in {"read_fail", "write_fail"}) =>
                last.outcome = "raise"
        /\ (Delegations = <<"firebase">> /\ last.backend = "post_fail") =>
                last.outcome = "raise"

\* the preferred adapter's write is rejected while another adapter is configured
C8_Witness ==
    /\ IsUpload /\ last.file_type = "editor_video"
    /\ cloudinary /\ backblaze
    /\ last.backend = "write_fail"
    /\ Delegations = <<"cloudinary">>
    /\ last.outcome = "raise"

\* C9: when reading the input fails or the backend rejects the write, the selected
\* adapter's upload_file raises and so does StorageManager.upload_file; a result
\* dict with success = true is returned only for an object the backend holds.
C9_SuccessOnlyIfWritten ==
    IsUpload =>
        /\ (Delegations # <<>> /\ last.backend \in {"read_fail", "write_fail"}) =>
                (last.outcome = "raise" /\ ~last.result.success)
        /\ last.result.success =>
                \E o \in store[last.result.service] :
                    o.name = last.result.file_name /\ o.url = last.result.download_url

C9_Witness ==
    /\ IsUpload /\ Delegations = <<"firebase">>
    /\ last.backend = "write_fail"
    /\ last.outcome = "raise"
    /\ store["firebase"] = {}

\* the URL contains none of the substrings delete_file looks for
MatchesNoPattern(file_url) ==
    \A pat \in {"backblazeb2.com", "b2-api.com", "cloudinary.com", "firebase",
                "googleapis.com"} :
        \A i \in 1..Len(file_url) : file_url[i] # pat

\* C10: delete_file without a service hint on a URL that matches no provider
\* pattern returns False and invokes no adapter's delete.
C10_UnknownUrlDeletesNothing ==
    (IsDelete /\ last.hint = None /\ MatchesNoPattern(last.url)) =>
        (last.outcome = "return_false" /\ Delegations = <<>>)

C10_Witness ==
    /\ IsDelete /\ last.hint = None /\ last.url = UrlUnknown
    /\ backblaze /\ cloudinary /\ firebase
    /\ last.outcome = "return_false" /\ Delegations = <<>>

IsGetDownloadUrl == last.op = "get_download_url"

\* C11: delete_file never raises: for every URL, hint, configuration and backend
\* outcome the call ends by returning a boolean; it returns False when the backend
\* call fails, when no identifier can be recovered from the URL (no backend call
\* is made) and when the backend holds no such object, so that True is returned
\* exactly when an object was removed.
C11_DeleteReturnsBoolean ==
    [][ (last.op = "idle" /\ last'.op = "delete_file") =>
            /\ last'.outcome \in {"return_true", "return_false"}
            /\ last'.backend = "fail" => last'.outcome = "return_false"
            /\ last'.backend_ops = <<>> => last'.outcome = "return_false"
            /\ last'.outcome = "return_true" <=> store' # store ]_vars

C11_Witness ==
    /\ IsDelete /\ Delegations = <<"firebase">>
    /\ last.url \in {FirebaseApiUrl(o.name) : o \in store["firebase"]}
    /\ last.backend = "fail"
    /\ last.outcome = "return_false"

\* some configured adapter's pattern of get_download_url occurs in the URL
MatchesConfiguredSignPattern(file_url) ==
    \/ backblaze /\ Contains(file_url, <<"backblazeb2.com">>)
    \/ cloudinary /\ Contains(file_url, <<"cloudinary.com">>)
    \/ firebase /\ Contains(file_url, <<"firebase">>)

\* C12: get_download_url always ends by returning a string and never raises; the
\* string is the input URL when the URL contains no provider pattern, when the
\* only patterns it contains belong to adapters that are not configured, and when
\* the adapter's signing call fails.
C12_SignedUrlNeverFails ==
    IsGetDownloadUrl =>
        /\ last.outcome = "return_url"
        /\ last.value \in Seq(STRING)
        /\ ~MatchesConfiguredSignPattern(last.url) =>
                (last.value = last.url /\ Delegations = <<>>)
        /\ last.backend = "fail" => last.value = last.url

C12_Witness ==
    /\ IsGetDownloadUrl /\ Delegations = <<"cloudinary">>
    /\ last.backend = "fail"
    /\ last.url # <<>> /\ last.value = last.url

\* the adapters delete_file without a hint delegates to for this URL
DeleteDelegations(file_url) ==
    IF DeleteTarget(file_url, None) \in Adapters
    THEN <<DeleteTarget(file_url, None)>> ELSE <<>>

\* the adapters get_download_url delegates to for this URL
SignDelegations(file_url) ==
    IF SignTarget(file_url) \in Adapters THEN <<SignTarget(file_url)>> ELSE <<>>

\* C13: for every URL and configuration, get_download_url delegates to the adapter
\* that delete_file without a hint delegates to, and to none exactly when
\* delete_file delegates to none.
C13_SameInferenceAsDelete ==
    IsGetDownloadUrl => Delegations = DeleteDelegations(last.url)

\* C14: the download_url of a successful upload resolves, in delete_file without a
\* hint and in get_download_url, to the adapter that stored the object.
C14_UrlIdentifiesProvider ==
    (IsUpload /\ last.result.success) =>
        /\ DeleteDelegations(last.result.download_url) = <<last.result.service>>
        /\ SignDelegations(last.result.download_url) = <<last.result.service>>

\* the identifier the adapter's delete_file recovers from a URL
ExtractedId(service, file_url) ==
    CASE service = "backblaze" -> _extract_file_id_from_url(file_url)
      [] service = "cloudinary" -> _extract_public_id_from_url(file_url)
      [] service = "firebase" -> _extract_blob_name_from_url(file_url)

\* C15: the identifier an adapter's delete_file recovers from the download_url of
\* a successful upload is the identifier of the object that upload created.
C15_UrlToKeyInverse ==
    (IsUpload /\ last.result.success) =>
        /\ ExtractedId(last.result.service, last.result.download_url)
                = last.result.native_id
        /\ \E o \in store[last.result.service] :
                o.id = ExtractedId(last.result.service, last.result.download_url)

\* the i-th path segment of an object key
Segment(file_name, i) == Split(file_name, <<"/">>)[i]

IsList == last.op = "list_files"

\* the adapter whose list_files was called
ListedService == last.calls[1].adapter

\* the object a result dict describes is still held by its adapter
StillStored(result) ==
    \E o \in store[result.service] : o.url = result.download_url

\* the listing has an entry for the object a result dict describes
ListingIncludes(result) ==
    \E o \in last.listing : o.url = result.download_url

\* the results of the successful uploads to the listed adapter by the listing's
\* user whose objects are still stored
UserUploads ==
    {i \in 1..Len(issued) :
        /\ issued[i].service = ListedService
        /\ issued[i].user_id = last.user_id
        /\ StillStored(issued[i])}

\* C16: no two successful uploads return the same file_name, whatever adapter
\* served them and even when file, user id and file type are the same.
C16_KeysNeverReused ==
    \A i, j \in 1..Len(issued) :
        i # j => issued[i].file_name # issued[j].file_name

C16_Witness ==
    /\ Len(issued) = 2
    /\ issued[1].service = issued[2].service
    /\ issued[1].user_id = issued[2].user_id
    /\ issued[1].file_type = issued[2].file_type
    /\ issued[1].original_filename = issued[2].original_filename
    /\ issued[1].file_name # issued[2].file_name

C19_ListWithoutTypeIsUserScoped ==
    (IsList /\ last.backend = "ok" /\ NoFileType(last.file_type)
        /\ last.limit > Cardinality(UserUploads)) =>
        \A i \in UserUploads : ListingIncludes(issued[i])

\* C20: the list list_files returns has at most limit entries, for every
\* limit >= 0.
C20_AtMostLimitEntries ==
    (IsList /\ last.limit >= 0) => Cardinality(last.listing) <= last.limit

IsGetServiceStatus == last.op = "get_service_status"

IsGetStorageInfo == last.op = "get_storage_info"

\* C21: no call changes which adapters the manager holds, whether it succeeds or
\* fails, and every get_service_status call, after any sequence of calls, returns
\* the mapping construction produced.
C21_AvailabilityFixed ==
    [][ /\ backblaze' = backblaze /\ cloudinary' = cloudinary /\ firebase' = firebase
        /\ last'.op = "get_service_status" =>
                last'.status = [a \in Adapters |-> _initialize_services(env)[a]] ]_vars

C21_Witness ==
    /\ IsGetServiceStatus
    /\ nextUuid = 2 /\ Len(issued) = 1
    /\ last.status = [a \in Adapters |-> TRUE]

\* C22: construction always yields a manager; each adapter is held exactly when
\* its own credentials are present and its own constructor returned, whatever
\* happened to the other two, and get_service_status reports exactly that.
C22_PartialAvailability ==
    /\ backblaze <=> env.b2 = "ok"
    /\ cloudinary <=> env.cld = "ok"
    /\ firebase <=> env.fb = "ok"
    /\ IsGetServiceStatus =>
            /\ last.status["backblaze"] <=> env.b2 = "ok"
            /\ last.status["cloudinary"] <=> env.cld = "ok"
            /\ last.status["firebase"] <=> env.fb = "ok"

C22_Witness ==
    /\ env.b2 = "ctor_raises" /\ env.cld = "ok" /\ env.fb = "absent"
    /\ IsGetServiceStatus
    /\ ~last.status["backblaze"] /\ last.status["cloudinary"]
    /\ ~last.status["firebase"]

\* C30: in every state get_storage_info has an entry for a provider exactly when
\* get_service_status reports it True; neither call invokes an adapter or a
\* backend, and neither changes store, keys or availability.
C30_IntrospectionConsistent ==
    [][ /\ \A a \in Adapters : a \in DOMAIN get_storage_info <=> get_service_status[a]
        /\ last'.op \in {"get_service_status", "get_storage_info"} =>
                /\ last'.calls = <<>> /\ last'.backend_ops = <<>>
                /\ UNCHANGED <<threads, env, backblaze, cloudinary, firebase, store, nextUuid,
                               issued>>
        /\ last'.op = "get_storage_info" =>
                \A a \in Adapters : a \in DOMAIN last'.info <=> get_service_status[a] ]_vars

C30_Witness ==
    /\ IsGetStorageInfo
    /\ backblaze /\ ~cloudinary /\ firebase
    /\ DOMAIN last.info = {"backblaze", "firebase"}

\* C24: when get_signed_url of the CDN-media or the general-bucket adapter asks
\* its backend for a signed URL, the expiry instant it names is the instant of
\* the call plus expiry_hours hours.
C24_ExpiryIsCallTimePlusTtl ==
    (IsGetDownloadUrl /\ last.backend_ops # <<>>
        /\ Delegations \in {<<"cloudinary">>, <<"firebase">>}) =>
        last.expires_at = last.now + last.expiry_hours * 3600

IsGetResourceType == last.op = "_get_resource_type"

\* the class a content type declares, "none" if it declares none
DeclaredClass(content_type) ==
    IF content_type = <<>> THEN "none"
    ELSE IF content_type[1] \in {"video/", "audio/"} THEN "video"
    ELSE IF content_type[1] = "image/" THEN "image"
    ELSE "none"

\* the extension, lower-cased, is one of the listed video, audio or image ones
KnownExtension(file_extension) ==
    /\ Len(file_extension) = 2
    /\ Lower(file_extension[2]) \in
            VideoExtensions \cup AudioExtensions \cup ImageExtensions

\* C25: _get_resource_type returns the class the content type declares whenever
\* it declares one (video/ and audio/ give 'video', image/ gives 'image'),
\* whatever the extension; otherwise the class of the extension (video and audio
\* extensions give 'video', image extensions 'image'); and 'raw' exactly when
\* neither the content type nor the extension classifies the file.
C25_ContentTypeWins ==
    IsGetResourceType =>
        /\ DeclaredClass(last.content_type) # "none" =>
                last.resource_type = DeclaredClass(last.content_type)
        /\ DeclaredClass(last.content_type) = "none" =>
                last.resource_type = _get_resource_type(<<>>, last.file_extension)
        /\ last.resource_type = "raw" <=>
                /\ DeclaredClass(last.content_type) = "none"
                /\ ~KnownExtension(last.file_extension)
        /\ (DeclaredClass(last.content_type) = "none"
                /\ KnownExtension(last.file_extension)) =>
                last.resource_type =
                    IF Lower(last.file_extension[2]) \in ImageExtensions
                    THEN "image" ELSE "video"

C25_Witness ==
    /\ IsGetResourceType
    /\ last.content_type = <<"image/", "png">>
    /\ last.file_extension = <<".", "mp4">>
    /\ last.resource_type = "image"

\* C26: an upload_file call that raises leaves every backend's object set as it
\* was before the call.
C26_FailedUploadLeavesNothing ==
    [][ (last'.op = "upload_file" /\ last'.outcome = "raise") => store' = store ]_vars

\* C27: BackblazeService.delete_file returns False for every URL without a
\* backend call, and no object a successful upload stored on the archival
\* provider is ever removed.
C27_ArchivalNeverDeleted ==
    /\ (IsDelete /\ Delegations = <<"backblaze">>) =>
            (last.outcome = "return_false" /\ last.backend_ops = <<>>)
    /\ \A i \in 1..Len(issued) :
            issued[i].service = "backblaze" => StillStored(issued[i])

C27_Witness ==
    /\ IsDelete /\ Delegations = <<"backblaze">>
    /\ last.url \in {o.url : o \in store["backblaze"]}
    /\ last.outcome = "return_false"

\* one of the patterns occurs in the URL
HasPattern(file_url, patterns) ==
    \E pat \in patterns : \E i \in 1..Len(file_url) : file_url[i] = pat

\* the provider of the first pattern group, in the order archival, CDN,
\* general-bucket, that occurs in the URL; None if none occurs
FirstMatch(file_url) ==
    IF HasPattern(file_url, {"backblazeb2.com", "b2-api.com"}) THEN "backblaze"
    ELSE IF HasPattern(file_url, {"cloudinary.com"}) THEN "cloudinary"
    ELSE IF HasPattern(file_url, {"firebase", "googleapis.com"}) THEN "firebase"
    ELSE None

\* C28: delete_file without a hint delegates to the provider of the first
\* pattern group that occurs in the URL when that provider is configured, and
\* otherwise returns False without calling any adapter, also one whose pattern
\* occurs in the URL too.
C28_FirstMatchOnly ==
    (IsDelete /\ last.hint \in {None, ""}) =>
        LET first == FirstMatch(last.url)
        IN  IF first \in Adapters /\ IsConfigured(first)
            THEN Delegations = <<first>>
            ELSE Delegations = <<>> /\ last.outcome = "return_false"

C28_Witness ==
    /\ IsDelete /\ last.hint = None /\ last.url = UrlCloudinaryFirebase
    /\ ~cloudinary /\ firebase
    /\ Delegations = <<>> /\ last.outcome = "return_false"

ResultKind(outcome) ==
    CASE outcome \in {"return_true", "return_false"} -> "bool"
      [] OTHER -> outcome

\* the calls that have chosen their adapter
Routed == {t \in Threads : threads[t].pc \in {"adapter", "return", "done"}}

\* the calls whose adapter method has ended
Ended == {t \in Threads : threads[t].pc \in {"return", "done"}
                           /\ threads[t].outcome # "idle"}

\* each call uses the adapter it would use alone
RoutedAsAlone ==
    \A t \in Routed :
        threads[t].target =
            CASE threads[t].op = "upload_file" ->
                     SelectAdapter(threads[t].file_type, ConcurrentFile.size)
              [] threads[t].op = "delete_file" -> DeleteTarget(threads[t].url, None)
              [] threads[t].op = "list_files" -> threads[t].service

\* each call ends with the kind of result it would end with alone
EndsAsAlone ==
    \A t \in Ended :
        ResultKind(threads[t].outcome) =
            CASE threads[t].op = "upload_file" ->
                     ResultKind(upload_file(ConcurrentFile, threads[t].file_type,
                                            ConcurrentUser, None,
                                            threads[t].backend).outcome)
              [] threads[t].op = "delete_file" -> "bool"
              [] threads[t].op = "list_files" -> "return_list"

\* two uploads that both stored an object stored it under different keys
DistinctKeys ==
    \A t, u \in Threads :
        (/\ t # u
         /\ threads[t].op = "upload_file" /\ threads[u].op = "upload_file"
         /\ threads[t].outcome = "return_record"
         /\ threads[u].outcome = "return_record")
            => threads[t].file_name # threads[u].file_name

\* no list call has returned an object written by an upload that has not
\* returned yet
NoInFlightObjectListed ==
    \A t, u \in Threads :
        (/\ threads[t].op = "list_files" /\ threads[t].pc = "return"
         /\ threads[u].op = "upload_file" /\ threads[u].pc = "return")
            => threads[t].listing \cap threads[u].written = {}

\* C23 as stated: concurrent calls are routed and end as they would alone,
\* concurrent uploads get distinct keys, and no call observes anything written
\* by a call that is still in flight.
C23_NothingObserved ==
    RoutedAsAlone /\ EndsAsAlone /\ DistinctKeys /\ NoInFlightObjectListed

\* C23, amended: concurrent calls are routed and end as they would alone,
\* concurrent uploads get distinct keys, and the manager's adapter attributes are
\* the ones construction set, whatever the calls in flight have done.
C23_ConcurrentCallsIndependent ==
    /\ RoutedAsAlone /\ EndsAsAlone /\ DistinctKeys
    /\ backblaze = _initialize_services(env).backblaze
    /\ cloudinary = _initialize_services(env).cloudinary
    /\ firebase = _initialize_services(env).firebase

C23_Witness ==
    /\ threads["t1"].op = "upload_file" /\ threads["t2"].op = "upload_file"
    /\ threads["t1"].pc = "return" /\ threads["t2"].pc = "return"
    /\ threads["t1"].file_type = threads["t2"].file_type
    /\ threads["t1"].target = threads["t2"].target
    /\ threads["t1"].outcome = "return_record"
    /\ threads["t2"].outcome = "return_record"
    /\ threads["t1"].file_name # threads["t2"].file_name

====
